---- MODULE Spec2Model ----
(***************************************************************************)
(* pyrelease (pyreleaser/cli.py): the release pipeline of release(), the   *)
(* exit-code mapping of main(), and the text functions they use            *)
(* (update_version_setup_py, get_git_tags, capture).                       *)
(*                                                                         *)
(* Strings are TLA+ strings; TLC evaluates Len, \o, SubSeq, Head and Tail  *)
(* on them, so the text functions work character by character as the       *)
(* Python code and its regular expressions do.                             *)
(***************************************************************************)
EXTENDS Naturals, Sequences, FiniteSets, TLC

VARIABLES
    pc,          \* position in main()/release()
    options,     \* argparse namespace (version, only_on, push, upload), or NoOptions
    installed,   \* executables found on PATH
    branch,      \* checked-out branch, as git rev-parse reports it
    dirty,       \* TRUE iff git diff-index HEAD reports a difference
    localTags,   \* tag names under refs/tags of the working repository
    remoteTags,  \* tag names under refs/tags of remote "origin"
    setupExists, \* TRUE iff ./setup.py exists
    setup_py,    \* text of ./setup.py
    declared,    \* what "python setup.py --version" prints (without newline)
    dist,        \* state of ./dist: "stale", "none" or "built"
    staged,      \* TRUE iff setup.py was git-added by this run
    commits,     \* messages of the commits created, oldest first
    pushed,      \* TRUE iff git push --follow-tags succeeded
    uploaded,    \* TRUE iff twine upload succeeded
    procs,       \* child processes spawned so far: <<[argv, rc]>>
    rewrites,    \* results of update_version_setup_py so far: <<[text, changed]>>
    stdout,      \* what the program itself printed on stdout
    stderr,      \* what the program (or the interpreter) printed on stderr
    exit_code,   \* << >> while running, <<n>> once the process has exited with n
    repo0,       \* the repository and working tree as the invocation found them
    invocation,  \* 1 for the first run of the command, 2 for the next one, ...
    tag_lists    \* the calls of get_git_tags so far: <<[out, tags]>>

env     == <<installed, branch, dirty, declared, setupExists>>
repo    == <<localTags, remoteTags, setup_py, dist, staged, commits, pushed, uploaded>>
outputs == <<stdout, stderr, exit_code>>
vars    == <<pc, options, env, repo, procs, rewrites, outputs, repo0, invocation, tag_lists>>

\* the repository and working tree, as one value
RepoState ==
    [localTags |-> localTags, remoteTags |-> remoteTags, setup_py |-> setup_py,
     dist |-> dist, staged |-> staged, commits |-> commits,
     pushed |-> pushed, uploaded |-> uploaded]

\* the namespace before parse_args() has run
NoOptions == [version |-> "", only_on |-> "", push |-> FALSE, upload |-> FALSE]

-----------------------------------------------------------------------------
(* Text helpers: Python str methods and the two regular expressions.       *)

\* s[i] of Python, 1-based
Char(s, i) == SubSeq(s, i, i)

\* str.startswith
StartsWith(s, p) == Len(s) >= Len(p) /\ SubSeq(s, 1, Len(p)) = p

\* the characters \s matches in a str pattern (ASCII part)
IsSpace(c) == c \in {" ", "\t", "\n", "\r", "\f"}

\* str.strip(): drop leading and trailing whitespace
RECURSIVE LStrip(_)
LStrip(s) == IF Len(s) > 0 /\ IsSpace(Head(s)) THEN LStrip(Tail(s)) ELSE s

RECURSIVE RStrip(_)
RStrip(s) ==
    IF Len(s) > 0 /\ IsSpace(Char(s, Len(s)))
    THEN RStrip(SubSeq(s, 1, Len(s) - 1))
    ELSE s

Strip(s) == LStrip(RStrip(s))

\* the lines a file object iterates over: each keeps its "\n", the last
\* line may have none
RECURSIVE LineEnd(_, _)
LineEnd(s, i) ==
    IF i > Len(s) THEN Len(s)
    ELSE IF Char(s, i) = "\n" THEN i
    ELSE LineEnd(s, i + 1)

RECURSIVE Lines(_)
Lines(s) ==
    IF Len(s) = 0 THEN << >>
    ELSE LET e == LineEnd(s, 1)
         IN  <<SubSeq(s, 1, e)>> \o Lines(SubSeq(s, e + 1, Len(s)))

\* re.match(r'VERSION\s*=', line): anchored at the start of the line
RECURSIVE SkipSpace(_, _)
SkipSpace(s, i) ==
    IF i <= Len(s) /\ IsSpace(Char(s, i)) THEN SkipSpace(s, i + 1) ELSE i

MatchVersionLine(line) ==
    /\ StartsWith(line, "VERSION")
    /\ LET i == SkipSpace(line, Len("VERSION") + 1)
       IN  i <= Len(line) /\ Char(line, i) = "="

\* variant of VersionLine: the line printed with end='', as the other lines are
VersionLine_no_newline(version) ==
    "VERSION = '" \o version \o "'  # maintained by release tool"

\* f"VERSION = '{version}'  # maintained by release tool" plus print's "\n"
VersionLine(version) ==
    "VERSION = '" \o version \o "'  # maintained by release tool" \o "\n"


-----------------------------------------------------------------------------
(* Version File Editor                                                     *)

\* variant of RewriteLines: the loop stops matching after the first
\* version line and copies the rest of the file
RECURSIVE JoinLines(_)
JoinLines(lines) ==
    IF lines = << >> THEN "" ELSE Head(lines) \o JoinLines(Tail(lines))

RECURSIVE RewriteLines_first_only(_, _)
RewriteLines_first_only(lines, version) ==
    IF lines = << >> THEN [text |-> "", changed |-> FALSE]
    ELSE IF MatchVersionLine(Head(lines))
         THEN [text |-> VersionLine(version) \o JoinLines(Tail(lines)), changed |-> TRUE]
         ELSE LET rest == RewriteLines_first_only(Tail(lines), version)
              IN  [text |-> Head(lines) \o rest.text, changed |-> rest.changed]

\* the loop body of update_version_setup_py over the remaining lines:
\* what is printed into the file, and whether some line matched
RECURSIVE RewriteLines(_, _)
RewriteLines(lines, version) ==
    IF lines = << >> THEN [text |-> "", changed |-> FALSE]
    ELSE LET rest == RewriteLines(Tail(lines), version)
         IN  IF MatchVersionLine(Head(lines))
             THEN [text |-> VersionLine(version) \o rest.text, changed |-> TRUE]
             ELSE [text |-> Head(lines) \o rest.text, changed |-> rest.changed]

\* update_version_setup_py(version) on a setup.py holding `text`:
\* the new content of the file and the returned flag
update_version_setup_py(version, text) == RewriteLines(Lines(text), version)

-----------------------------------------------------------------------------
(* Repository Inspector: the text git prints and what the code reads in it *)

Sha == "3f9a1c"

\* stdout of "git show-ref --tags": one "<sha> refs/tags/<name>" line per tag
RECURSIVE show_ref_output(_)
show_ref_output(tags) ==
    IF tags = {} THEN ""
    ELSE LET t == CHOOSE x \in tags : TRUE
         IN  Sha \o " refs/tags/" \o t \o "\n" \o show_ref_output(tags \ {t})

\* stdout of "git ls-remote --tags origin": per annotated tag the tag object
\* and the peeled "<name>^{}" line, tab separated
RECURSIVE ls_remote_output(_)
ls_remote_output(tags) ==
    IF tags = {} THEN ""
    ELSE LET t == CHOOSE x \in tags : TRUE
         IN  Sha \o "\trefs/tags/" \o t \o "\n"
             \o Sha \o "\trefs/tags/" \o t \o "^{}\n"
             \o ls_remote_output(tags \ {t})

\* variant of capture: the child's stdout as it is, final newline included
capture_raw(out) == out

\* capture(): the child's stdout, stripped
capture(out) == Strip(out)

\* variant of GroupEnd: the group is [^\n]+, it runs on to the end of the line
RECURSIVE GroupEnd_to_newline(_, _)
GroupEnd_to_newline(s, i) ==
    IF i > Len(s) \/ Char(s, i) = "\n" THEN i ELSE GroupEnd_to_newline(s, i + 1)

\* end of the group ([^^\n]+) started at i: first index that holds "^" or
\* "\n", or Len(s) + 1
RECURSIVE GroupEnd(_, _)
GroupEnd(s, i) ==
    IF i > Len(s) \/ Char(s, i) \in {"^", "\n"} THEN i ELSE GroupEnd(s, i + 1)

\* set(re.findall(r'refs/tags/([^^\n]+)', s)), scanning from index i
RECURSIVE FindTags(_, _)
FindTags(s, i) ==
    IF i > Len(s) THEN {}
    ELSE IF i + Len("refs/tags/") - 1 <= Len(s)
            /\ SubSeq(s, i, i + Len("refs/tags/") - 1) = "refs/tags/"
         THEN LET b == i + Len("refs/tags/")
                  e == GroupEnd(s, b)
              IN  IF e > b
                  THEN {SubSeq(s, b, e - 1)} \cup FindTags(s, e)
                  ELSE FindTags(s, i + 1)
         ELSE FindTags(s, i + 1)

\* variant of get_git_tags: the pattern has no group, so findall yields the
\* whole "refs/tags/<name>" matches
get_git_tags_whole_match(out) ==
    {"refs/tags/" \o t : t \in FindTags(capture(out), 1)}

\* get_git_tags(remote) given the stdout of its git command
get_git_tags(out) == FindTags(capture(out), 1)

-----------------------------------------------------------------------------
(* Inputs and environment of one invocation                                *)

\* version strings given on the command line
Versions == {"1.0", "0.9", "v2.0"}

\* values of --only-on; "" stands for the option not given (None)
OnlyOn == {"", "master"}

Branches == {"master", "dev"}

\* tags that may already exist, locally or on origin
TagPool == {"v1.0", "v0.9"}

Tools == {"git", "python", "which", "rm", "twine"}

\* what is on PATH: everything, or everything but one executable
InstalledSets == {Tools} \cup {Tools \ {t} : t \in Tools}

\* contents of setup.py the pipeline is run on
SetupFiles ==
    { "VERSION = '0.9'\nsetup(version=VERSION)\n",
      "name = 'pkg'\nVERSION='0.9'\nVERSION = '0.1'",
      "setup(version='0.9')\n" }

\* versions the build tool may report for setup.py
Declared == {"0.9", "1.0"}

-----------------------------------------------------------------------------
(* Shell Executor and the CLI surface's exception handling                 *)

\* repr() of an argv list: ['git', 'add', 'setup.py']
RECURSIVE ReprItems(_)
ReprItems(argv) ==
    IF argv = << >> THEN ""
    ELSE "'" \o Head(argv) \o "'"
         \o (IF Len(argv) > 1 THEN ", " ELSE "") \o ReprItems(Tail(argv))

Repr(argv) == "[" \o ReprItems(argv) \o "]"

\* the exceptions release() can end with
Error(msg) == [type |-> "Error", msg |-> msg]

CalledProcessError(argv, rc) ==
    [type |-> "CalledProcessError",
     msg  |-> "Command '" \o Repr(argv) \o "' returned non-zero exit status "
              \o ToString(rc) \o "."]

KeyboardInterrupt == [type |-> "KeyboardInterrupt", msg |-> ""]

FileNotFoundError(exe) ==
    [type |-> "FileNotFoundError",
     msg  |-> "[Errno 2] No such file or directory: '" \o exe \o "'"]

\* the two glyphs the program prints (U+1F344, U+1F4A5), by name
Mushroom == "<mushroom>"
Collision == "<collision>"

\* title(msg): the line printed on stdout
title(msg) == "\n" \o Mushroom \o "  " \o msg \o "\n"

\* what main() prints for a caught Error or CalledProcessError
Fatal(msg) == "\n" \o Collision \o "  Fatal: " \o msg \o "\n"

\* the interpreter's report of an exception main() does not catch
Traceback(exc) ==
    "Traceback (most recent call last):\n" \o exc.type \o ": " \o exc.msg \o "\n"

\* stderr after release() ended with exc: the except clauses of main()
main_except(exc) ==
    IF exc.type \in {"CalledProcessError", "Error"}
    THEN Append(stderr, Fatal(exc.msg))
    ELSE IF exc.type = "KeyboardInterrupt"
    THEN stderr
    ELSE Append(stderr, Traceback(exc))

\* variant of Raise: the interrupt handler returns instead of exiting
Raise_interrupt_passes(exc) ==
    /\ pc' = "Aborted"
    /\ stderr' = main_except(exc)
    /\ exit_code' = IF exc.type = "KeyboardInterrupt" THEN <<0>> ELSE <<1>>

\* release() raises exc: main() handles it (or the interpreter does) and the
\* process exits with status 1
Raise(exc) ==
    /\ pc' = "Aborted"
    /\ stderr' = main_except(exc)
    /\ exit_code' = <<1>>

\* release() goes on with the step `next`
Goto(next) ==
    /\ pc' = next
    /\ UNCHANGED <<stderr, exit_code>>

\* the ways run(argv) can end: the executable is missing (FileNotFoundError,
\* no child), or the child runs and ends as `results` says ("ok": exit 0,
\* "fail": exit 1), or the user interrupts while run() waits for the child
RunOutcomes(argv, results) ==
    IF argv[1] \notin installed THEN {"absent"} ELSE results \cup {"interrupt"}

\* exit status by outcome
Rc(out) == IF out = "ok" THEN 0 ELSE IF out = "fail" THEN 1 ELSE 130

\* the child-process log after run(argv) ended as out
Spawned(argv, out) ==
    IF out = "absent" THEN procs ELSE Append(procs, [argv |-> argv, rc |-> Rc(out)])

\* the exception run(argv, check=True) raises for out; "ok" raises none
RunError(argv, out) ==
    IF out = "absent" THEN FileNotFoundError(argv[1])
    ELSE IF out = "interrupt" THEN KeyboardInterrupt
    ELSE CalledProcessError(argv, Rc(out))

\* variant of Tag: the version string is used as the tag name
Tag_no_prefix(version_string) == version_string

\* "v" + version_string, line 67
Tag(version_string) == "v" \o version_string

-----------------------------------------------------------------------------
(* The state before main() runs                                            *)

Init ==
    /\ pc = "main"
    /\ options = NoOptions
    /\ installed \in InstalledSets
    /\ branch \in Branches
    /\ dirty \in BOOLEAN
    /\ localTags \in SUBSET TagPool
    /\ remoteTags \in SUBSET TagPool
    /\ setupExists \in BOOLEAN
    /\ setup_py \in (IF setupExists THEN SetupFiles ELSE {""})
    /\ declared \in (IF setupExists THEN Declared ELSE {""})
    /\ dist \in {"none", "stale"}
    /\ staged = FALSE
    /\ commits = << >>
    /\ pushed = FALSE
    /\ uploaded = FALSE
    /\ procs = << >>
    /\ rewrites = << >>
    /\ stdout = << >>
    /\ stderr = << >>
    /\ exit_code = << >>
    /\ repo0 = RepoState
    /\ invocation = 1
    /\ tag_lists = << >>

-----------------------------------------------------------------------------
(* main(), lines 132-138: parse_args() yields the options, or reports the  *)
(* missing positional argument and exits with status 2                     *)

Usage ==
    "usage: pyrelease [-h] [--only-on BRANCH-NAME] [--push] [--upload] version\n"
    \o "pyrelease: error: the following arguments are required: version\n"

main ==
    /\ pc = "main"
    /\ \E given \in BOOLEAN :
         IF given
         THEN /\ \E v \in Versions, o \in OnlyOn, p \in BOOLEAN, u \in BOOLEAN :
                    options' = [version |-> v, only_on |-> o, push |-> p, upload |-> u]
              /\ Goto("release")
         ELSE /\ options' = options
              /\ pc' = "Usage"
              /\ stderr' = Append(stderr, Usage)
              /\ exit_code' = <<2>>
    /\ UNCHANGED <<env, repo, procs, rewrites, stdout, repo0, invocation, tag_lists>>

-----------------------------------------------------------------------------
(* release(), lines 62-93: the checks                                       *)

\* variant of release_version: the leading "v" is not looked at
release_version_unchecked ==
    /\ pc = "release"
    /\ Goto("check_twine")
    /\ UNCHANGED <<options, env, repo, procs, rewrites, stdout, repo0, invocation, tag_lists>>

\* lines 64-67
release_version ==
    /\ pc = "release"
    /\ IF StartsWith(options.version, "v")
       THEN Raise(Error("A version can't begin with a v"))
       ELSE Goto("check_twine")
    /\ UNCHANGED <<options, env, repo, procs, rewrites, stdout, repo0, invocation, tag_lists>>

\* lines 71-73 with is_twine_installed, lines 57-59: "which twine" exits 0
\* iff twine is on PATH; its exit status is read, not checked
WhichTwine == <<"which", "twine">>

\* variant of is_twine_installed: any exit status of "which" counts as found
is_twine_installed_any(returncode) == TRUE

is_twine_installed(returncode) == returncode = 0

release_check_twine ==
    /\ pc = "check_twine"
    /\ IF options.upload
       THEN \E out \in RunOutcomes(WhichTwine,
                                   IF "twine" \in installed THEN {"ok"} ELSE {"fail"}) :
              /\ procs' = Spawned(WhichTwine, out)
              /\ IF out \in {"absent", "interrupt"} THEN Raise(RunError(WhichTwine, out))
                 ELSE IF ~is_twine_installed(Rc(out))
                 THEN Raise(Error("twine is not installed"))
                 ELSE Goto("check_branch")
       ELSE /\ procs' = procs
            /\ Goto("check_branch")
    /\ UNCHANGED <<options, env, repo, rewrites, stdout, repo0, invocation, tag_lists>>

\* lines 75-78 with get_git_branch, lines 22-23 (check=True)
RevParse == <<"git", "rev-parse", "--abbrev-ref", "HEAD">>

release_check_branch ==
    /\ pc = "check_branch"
    /\ IF options.only_on # ""
       THEN \E out \in RunOutcomes(RevParse, {"ok", "fail"}) :
              /\ procs' = Spawned(RevParse, out)
              /\ IF out # "ok" THEN Raise(RunError(RevParse, out))
                 ELSE LET current_branch == capture(branch \o "\n")
                      IN  IF current_branch # options.only_on
                          THEN Raise(Error("not on the " \o options.only_on
                                           \o " branch. (" \o current_branch \o ")"))
                          ELSE Goto("check_clean")
       ELSE /\ procs' = procs
            /\ Goto("check_clean")
    /\ UNCHANGED <<options, env, repo, rewrites, stdout, repo0, invocation, tag_lists>>

\* lines 80-81 with is_git_clean, lines 36-38: the exit status of
\* "git diff-index --quiet HEAD --" is read, not checked
DiffIndex == <<"git", "diff-index", "--quiet", "HEAD", "--">>

\* variant of is_git_clean: any exit status counts as clean
is_git_clean_always(returncode) == TRUE

is_git_clean(returncode) == returncode = 0

release_check_clean ==
    /\ pc = "check_clean"
    /\ \E out \in RunOutcomes(DiffIndex, IF dirty THEN {"fail"} ELSE {"ok"}) :
         /\ procs' = Spawned(DiffIndex, out)
         /\ IF out \in {"absent", "interrupt"} THEN Raise(RunError(DiffIndex, out))
            ELSE IF ~is_git_clean(Rc(out)) THEN Raise(Error("uncommited files"))
            ELSE Goto("check_local_tag")
    /\ UNCHANGED <<options, env, repo, rewrites, stdout, repo0, invocation, tag_lists>>

\* lines 83-84 with get_git_tags(remote=False), lines 30-33: check=False,
\* "git show-ref --tags" exits 1 and prints nothing when there is no tag
ShowRef == <<"git", "show-ref", "--tags">>

\* variant of release_check_local_tag: the local listing is captured with
\* check=True, as the remote one is
release_check_local_tag_strict ==
    /\ pc = "check_local_tag"
    /\ \E out \in RunOutcomes(ShowRef, IF localTags = {} THEN {"fail"} ELSE {"ok"}) :
         /\ procs' = Spawned(ShowRef, out)
         /\ IF out # "ok"
            THEN /\ Raise(RunError(ShowRef, out))
                 /\ tag_lists' = tag_lists
            ELSE LET output == show_ref_output(localTags)
                     tags   == get_git_tags(output)
                 IN  /\ tag_lists' = Append(tag_lists, [out |-> output, tags |-> tags])
                     /\ IF Tag(options.version) \in tags
                        THEN Raise(Error("tag already exists locally ("
                                         \o Tag(options.version) \o ")"))
                        ELSE Goto("check_remote_tag")
    /\ UNCHANGED <<options, env, repo, rewrites, stdout, repo0, invocation>>

release_check_local_tag ==
    /\ pc = "check_local_tag"
    /\ \E out \in RunOutcomes(ShowRef, IF localTags = {} THEN {"fail"} ELSE {"ok"}) :
         /\ procs' = Spawned(ShowRef, out)
         /\ IF out \in {"absent", "interrupt"}
            THEN /\ Raise(RunError(ShowRef, out))
                 /\ tag_lists' = tag_lists
            ELSE LET output == show_ref_output(localTags)
                     tags   == get_git_tags(output)
                 IN  /\ tag_lists' = Append(tag_lists, [out |-> output, tags |-> tags])
                     /\ IF Tag(options.version) \in tags
                        THEN Raise(Error("tag already exists locally ("
                                         \o Tag(options.version) \o ")"))
                        ELSE Goto("check_remote_tag")
    /\ UNCHANGED <<options, env, repo, rewrites, stdout, repo0, invocation>>

\* lines 86-87 with get_git_tags(remote=True), lines 27-33: check=True
LsRemote == <<"git", "ls-remote", "--tags", "origin">>

release_check_remote_tag ==
    /\ pc = "check_remote_tag"
    /\ \E out \in RunOutcomes(LsRemote, {"ok", "fail"}) :
         /\ procs' = Spawned(LsRemote, out)
         /\ IF out # "ok"
            THEN /\ Raise(RunError(LsRemote, out))
                 /\ tag_lists' = tag_lists
            ELSE LET output == ls_remote_output(remoteTags)
                     tags   == get_git_tags(output)
                 IN  /\ tag_lists' = Append(tag_lists, [out |-> output, tags |-> tags])
                     /\ IF Tag(options.version) \in tags
                        THEN Raise(Error("tag already exists remotely ("
                                         \o Tag(options.version) \o ")"))
                        ELSE Goto("check_setup")
    /\ UNCHANGED <<options, env, repo, rewrites, stdout, repo0, invocation>>

\* variant of release_check_setup: the file's existence is not looked at
release_check_setup_unchecked ==
    /\ pc = "check_setup"
    /\ Goto("check_version")
    /\ UNCHANGED <<options, env, repo, procs, rewrites, stdout, repo0, invocation, tag_lists>>

\* lines 89-90
release_check_setup ==
    /\ pc = "check_setup"
    /\ IF ~setupExists
       THEN Raise(Error("missing setup.py file"))
       ELSE Goto("check_version")
    /\ UNCHANGED <<options, env, repo, procs, rewrites, stdout, repo0, invocation, tag_lists>>

\* lines 92-93 with read_version_setup_py, lines 41-43 (check=True)
SetupVersion == <<"python", "setup.py", "--version">>

\* variant of release_check_version: the reported version is not compared
release_check_version_unchecked ==
    /\ pc = "check_version"
    /\ \E out \in RunOutcomes(SetupVersion, {"ok", "fail"}) :
         /\ procs' = Spawned(SetupVersion, out)
         /\ IF out # "ok" THEN Raise(RunError(SetupVersion, out))
            ELSE Goto("update")
    /\ UNCHANGED <<options, env, repo, rewrites, stdout, repo0, invocation, tag_lists>>

release_check_version ==
    /\ pc = "check_version"
    /\ \E out \in RunOutcomes(SetupVersion, {"ok", "fail"}) :
         /\ procs' = Spawned(SetupVersion, out)
         /\ IF out # "ok" THEN Raise(RunError(SetupVersion, out))
            ELSE IF options.version = capture(declared \o "\n")
            THEN Raise(Error("already the current version"))
            ELSE Goto("update")
    /\ UNCHANGED <<options, env, repo, rewrites, stdout, repo0, invocation, tag_lists>>

-----------------------------------------------------------------------------
(* release(), lines 95-129: prepare, build, create, publish                *)

\* variant of release_update: the returned flag is not looked at
release_update_unchecked ==
    /\ pc = "update"
    /\ LET r == update_version_setup_py(options.version, setup_py)
       IN  /\ setup_py' = r.text
           /\ rewrites' = Append(rewrites, r)
           /\ Goto("rm_dist")
    /\ stdout' = Append(stdout, title("Updating setup.py..."))
    /\ UNCHANGED <<options, env, localTags, remoteTags, dist, staged, commits,
                   pushed, uploaded, procs, repo0, invocation, tag_lists>>

\* lines 97-100: the file is rewritten in place whether or not a line matched
release_update ==
    /\ pc = "update"
    /\ LET r == update_version_setup_py(options.version, setup_py)
       IN  /\ setup_py' = r.text
           /\ rewrites' = Append(rewrites, r)
           /\ IF ~r.changed
              THEN Raise(Error("failed to update setup.py"))
              ELSE Goto("rm_dist")
    /\ stdout' = Append(stdout, title("Updating setup.py..."))
    /\ UNCHANGED <<options, env, localTags, remoteTags, dist, staged, commits,
                   pushed, uploaded, procs, repo0, invocation, tag_lists>>

\* lines 104-105 (check=True)
RmDist == <<"rm", "-rf", "dist">>

release_rm_dist ==
    /\ pc = "rm_dist"
    /\ \E out \in RunOutcomes(RmDist, {"ok", "fail"}) :
         /\ procs' = Spawned(RmDist, out)
         /\ dist' = IF out = "ok" THEN "none" ELSE dist
         /\ IF out # "ok" THEN Raise(RunError(RmDist, out)) ELSE Goto("build")
    /\ stdout' = Append(stdout, title("Building distribution..."))
    /\ UNCHANGED <<options, env, localTags, remoteTags, setup_py, staged, commits,
                   pushed, uploaded, rewrites, repo0, invocation, tag_lists>>

\* lines 106-108: the exit status is read, not checked
Build == <<"python", "setup.py", "sdist", "bdist_wheel">>

\* variant of release_build: the exit status of the build is not looked at
release_build_unchecked ==
    /\ pc = "build"
    /\ \E out \in RunOutcomes(Build, {"ok", "fail"}) :
         /\ procs' = Spawned(Build, out)
         /\ dist' = IF out = "ok" THEN "built" ELSE dist
         /\ IF out \in {"absent", "interrupt"} THEN Raise(RunError(Build, out))
            ELSE Goto("add")
    /\ UNCHANGED <<options, env, localTags, remoteTags, setup_py, staged, commits,
                   pushed, uploaded, rewrites, stdout, repo0, invocation, tag_lists>>

release_build ==
    /\ pc = "build"
    /\ \E out \in RunOutcomes(Build, {"ok", "fail"}) :
         /\ procs' = Spawned(Build, out)
         /\ dist' = IF out = "ok" THEN "built" ELSE dist
         /\ IF out \in {"absent", "interrupt"} THEN Raise(RunError(Build, out))
            ELSE IF Rc(out) # 0 THEN Raise(Error("failed to build distribution"))
            ELSE Goto("add")
    /\ UNCHANGED <<options, env, localTags, remoteTags, setup_py, staged, commits,
                   pushed, uploaded, rewrites, stdout, repo0, invocation, tag_lists>>

\* lines 112-113 (check=True)
GitAdd == <<"git", "add", "setup.py">>

release_add ==
    /\ pc = "add"
    /\ \E out \in RunOutcomes(GitAdd, {"ok", "fail"}) :
         /\ procs' = Spawned(GitAdd, out)
         /\ staged' = IF out = "ok" THEN TRUE ELSE staged
         /\ IF out # "ok" THEN Raise(RunError(GitAdd, out)) ELSE Goto("commit")
    /\ stdout' = Append(stdout, title("Create the release commit"))
    /\ UNCHANGED <<options, env, localTags, remoteTags, setup_py, dist, commits,
                   pushed, uploaded, rewrites, repo0, invocation, tag_lists>>

\* line 114 (check=True)
GitCommit(version) == <<"git", "commit", "-m", "Release " \o version>>

\* variant of release_commit: the exit status of the commit is not checked
release_commit_unchecked ==
    /\ pc = "commit"
    /\ LET argv == GitCommit(Tag(options.version))
       IN  \E out \in RunOutcomes(argv, {"ok", "fail"}) :
             /\ procs' = Spawned(argv, out)
             /\ commits' = IF out = "ok" THEN Append(commits, argv[4]) ELSE commits
             /\ staged' = IF out = "ok" THEN FALSE ELSE staged
             /\ IF out \in {"absent", "interrupt"} THEN Raise(RunError(argv, out))
                ELSE Goto("tag")
    /\ UNCHANGED <<options, env, localTags, remoteTags, setup_py, dist,
                   pushed, uploaded, rewrites, stdout, repo0, invocation, tag_lists>>

release_commit ==
    /\ pc = "commit"
    /\ LET argv == GitCommit(Tag(options.version))
       IN  \E out \in RunOutcomes(argv, {"ok", "fail"}) :
             /\ procs' = Spawned(argv, out)
             /\ commits' = IF out = "ok" THEN Append(commits, argv[4]) ELSE commits
             /\ staged' = IF out = "ok" THEN FALSE ELSE staged
             /\ IF out # "ok" THEN Raise(RunError(argv, out)) ELSE Goto("tag")
    /\ UNCHANGED <<options, env, localTags, remoteTags, setup_py, dist,
                   pushed, uploaded, rewrites, stdout, repo0, invocation, tag_lists>>

\* lines 116-117 (check=True); git refuses to create a tag that exists
GitTag(version) ==
    <<"git", "tag", "-a", "-m", "Release tag for " \o version, version>>

\* variant of release_tag: a failed tag creation drops the release commit
release_tag_rollback ==
    /\ pc = "tag"
    /\ LET argv == GitTag(Tag(options.version))
       IN  \E out \in RunOutcomes(argv, IF argv[6] \in localTags
                                        THEN {"fail"} ELSE {"ok", "fail"}) :
             /\ procs' = Spawned(argv, out)
             /\ localTags' = IF out = "ok" THEN localTags \cup {argv[6]} ELSE localTags
             /\ commits' = IF out = "ok" THEN commits ELSE repo0.commits
             /\ IF out # "ok" THEN Raise(RunError(argv, out)) ELSE Goto("push")
    /\ stdout' = Append(stdout, title("Creating tag"))
    /\ UNCHANGED <<options, env, remoteTags, setup_py, dist, staged,
                   pushed, uploaded, rewrites, repo0, invocation, tag_lists>>

release_tag ==
    /\ pc = "tag"
    /\ LET argv == GitTag(Tag(options.version))
       IN  \E out \in RunOutcomes(argv, IF argv[6] \in localTags
                                        THEN {"fail"} ELSE {"ok", "fail"}) :
             /\ procs' = Spawned(argv, out)
             /\ localTags' = IF out = "ok" THEN localTags \cup {argv[6]} ELSE localTags
             /\ IF out # "ok" THEN Raise(RunError(argv, out)) ELSE Goto("push")
    /\ stdout' = Append(stdout, title("Creating tag"))
    /\ UNCHANGED <<options, env, remoteTags, setup_py, dist, staged, commits,
                   pushed, uploaded, rewrites, repo0, invocation, tag_lists>>

\* lines 121-125 (check=True): push with --follow-tags, or the reminder
GitPush == <<"git", "push", "--follow-tags">>

\* variant of release_push: the push runs whether or not --push was given
release_push_always ==
    /\ pc = "push"
    /\ \E out \in RunOutcomes(GitPush, {"ok", "fail"}) :
         /\ procs' = Spawned(GitPush, out)
         /\ pushed' = (out = "ok")
         /\ remoteTags' = IF out = "ok"
                          THEN remoteTags \cup {Tag(options.version)}
                          ELSE remoteTags
         /\ IF out # "ok" THEN Raise(RunError(GitPush, out)) ELSE Goto("upload")
    /\ stdout' = Append(stdout, title("Pushing to git upstream"))
    /\ UNCHANGED <<options, env, localTags, setup_py, dist, staged, commits,
                   uploaded, rewrites, repo0, invocation, tag_lists>>

release_push ==
    /\ pc = "push"
    /\ IF options.push
       THEN /\ \E out \in RunOutcomes(GitPush, {"ok", "fail"}) :
                 /\ procs' = Spawned(GitPush, out)
                 /\ pushed' = (out = "ok")
                 /\ remoteTags' = IF out = "ok"
                                  THEN remoteTags \cup {Tag(options.version)}
                                  ELSE remoteTags
                 /\ IF out # "ok" THEN Raise(RunError(GitPush, out)) ELSE Goto("upload")
            /\ stdout' = Append(stdout, title("Pushing to git upstream"))
       ELSE /\ UNCHANGED <<procs, pushed, remoteTags>>
            /\ stdout' = Append(stdout,
                                title("Don't forget to push:\n  git push --follow-tags\n"))
            /\ Goto("upload")
    /\ UNCHANGED <<options, env, localTags, setup_py, dist, staged, commits,
                   uploaded, rewrites, repo0, invocation, tag_lists>>

\* lines 127-129 (check=True), then release() returns and main() ends: the
\* process exits with status 0
TwineUpload == <<"twine", "upload", "dist/*">>

release_upload ==
    /\ pc = "upload"
    /\ IF options.upload
       THEN /\ \E out \in RunOutcomes(TwineUpload, {"ok", "fail"}) :
                 /\ procs' = Spawned(TwineUpload, out)
                 /\ uploaded' = (out = "ok")
                 /\ IF out # "ok" THEN Raise(RunError(TwineUpload, out))
                    ELSE /\ pc' = "Success"
                         /\ exit_code' = <<0>>
                         /\ stderr' = stderr
            /\ stdout' = Append(stdout, title("Uploading to PyPI"))
       ELSE /\ UNCHANGED <<procs, uploaded, stdout, stderr>>
            /\ pc' = "Success"
            /\ exit_code' = <<0>>
    /\ UNCHANGED <<options, env, localTags, remoteTags, setup_py, dist, staged,
                   commits, pushed, rewrites, repo0, invocation, tag_lists>>

-----------------------------------------------------------------------------

Next ==
    \/ main
    \/ release_version
    \/ release_check_twine
    \/ release_check_branch
    \/ release_check_clean
    \/ release_check_local_tag
    \/ release_check_remote_tag
    \/ release_check_setup
    \/ release_check_version
    \/ release_update
    \/ release_rm_dist
    \/ release_build
    \/ release_add
    \/ release_commit
    \/ release_tag
    \/ release_push
    \/ release_upload

Spec == Init /\ [][Next]_vars

-----------------------------------------------------------------------------
(* update_version_setup_py on its own: called MaxRuns times in a row, with *)
(* the same version (one that release() lets through to line 98), on every *)
(* file of at most MaxLines lines                                          *)

MaxLines == 3
MaxRuns == 2

\* lines a setup.py may hold, without their "\n"
LinePool ==
    { "VERSION = '0.9'", "VERSION='0.9'", "VERSION \t= 1", "VERSION",
      " VERSION = 1", "VERSIONS = 1", "name = 'pkg'", "" }

\* the texts of at most n lines, every line ended by "\n"
RECURSIVE Texts(_)
Texts(n) ==
    IF n = 0 THEN {""}
    ELSE LET shorter == Texts(n - 1)
         IN  shorter \cup {t \o l \o "\n" : t \in shorter, l \in LinePool}

\* the same, and the texts whose last line has no "\n"
Files == Texts(MaxLines) \cup {t \o l : t \in Texts(MaxLines - 1), l \in LinePool}

InitRewrite ==
    /\ pc = "rewrite"
    /\ options \in {[NoOptions EXCEPT !.version = v] :
                        v \in {w \in Versions : ~StartsWith(w, "v")}}
    /\ installed = Tools
    /\ branch = "master"
    /\ dirty = FALSE
    /\ localTags = {}
    /\ remoteTags = {}
    /\ setupExists = TRUE
    /\ setup_py \in Files
    /\ declared = ""
    /\ dist = "none"
    /\ staged = FALSE
    /\ commits = << >>
    /\ pushed = FALSE
    /\ uploaded = FALSE
    /\ procs = << >>
    /\ rewrites = << >>
    /\ stdout = << >>
    /\ stderr = << >>
    /\ exit_code = << >>
    /\ repo0 = RepoState
    /\ invocation = 1
    /\ tag_lists = << >>

\* one call of update_version_setup_py(options.version), lines 46-54
call_update_version_setup_py ==
    /\ pc = "rewrite"
    /\ Len(rewrites) < MaxRuns
    /\ LET r == update_version_setup_py(options.version, setup_py)
       IN  /\ setup_py' = r.text
           /\ rewrites' = Append(rewrites, r)
    /\ UNCHANGED <<pc, options, env, localTags, remoteTags, dist, staged, commits,
                   pushed, uploaded, procs, outputs, repo0, invocation, tag_lists>>

NextRewrite == call_update_version_setup_py

SpecRewrite == InitRewrite /\ [][NextRewrite]_vars

-----------------------------------------------------------------------------
(* Properties of update_version_setup_py                                   *)

\* indices of the lines of text that match the version-declaration pattern
VersionLines(text) ==
    {i \in 1..Len(Lines(text)) : MatchVersionLine(Lines(text)[i])}

First(S) == CHOOSE i \in S : \A j \in S : i <= j

C10_RewriteIdempotent ==
    /\ \A k \in 2..Len(rewrites) :
         /\ rewrites[k].text = rewrites[k - 1].text
         /\ rewrites[k].changed = rewrites[k - 1].changed
    /\ \A k \in 1..Len(rewrites) :
         /\ Len(Lines(rewrites[k].text)) = Len(Lines(repo0.setup_py))
         /\ VersionLines(rewrites[k].text) = VersionLines(repo0.setup_py)

\* C10 witness: a file whose version line is not the first line was
\* rewritten twice, the first call having changed the text
C10_Witness ==
    /\ pc = "rewrite"
    /\ Len(rewrites) = 2
    /\ rewrites[1].changed
    /\ rewrites[1].text # repo0.setup_py
    /\ 1 \notin VersionLines(repo0.setup_py)
    /\ rewrites[2].text = rewrites[1].text

-----------------------------------------------------------------------------
(* Properties of the release pipeline                                      *)

\* release() has been entered
Entered == pc \notin {"main", "Usage"}

\* nothing of the repository, the working tree or the remote has changed
Untouched == RepoState = repo0 /\ rewrites = << >>

\* the tag this invocation is about, "v{version}"
Target == "v" \o options.version

\* sub occurs in s
Contains(s, sub) ==
    \E i \in 1..(Len(s) + 1 - Len(sub)) : SubSeq(s, i, i + Len(sub) - 1) = sub

\* argv was run (whatever its exit status)
Ran(argv) == \E i \in 1..Len(procs) : procs[i].argv = argv

\* the steps of the pipeline, in the order of spec section 4.4
StepOrder ==
    <<"release", "check_twine", "check_branch", "check_clean", "check_local_tag",
      "check_remote_tag", "check_setup", "check_version", "update", "rm_dist",
      "build", "add", "commit", "tag", "push", "upload", "Success">>

Pos(step) == CHOOSE i \in 1..Len(StepOrder) : StepOrder[i] = step

\* the run is going on (or has succeeded) and has completed `step`
Past(step) == pc \in {StepOrder[i] : i \in (Pos(step) + 1)..Len(StepOrder)}

\* the pipeline step a child process belongs to
StepOfProc(argv) ==
    CASE argv = WhichTwine   -> "check_twine"
      [] argv = RevParse     -> "check_branch"
      [] argv = DiffIndex    -> "check_clean"
      [] argv = ShowRef      -> "check_local_tag"
      [] argv = LsRemote     -> "check_remote_tag"
      [] argv = SetupVersion -> "check_version"
      [] argv = RmDist       -> "rm_dist"
      [] argv = Build        -> "build"
      [] argv = GitAdd       -> "add"
      [] argv = GitPush      -> "push"
      [] argv = TwineUpload  -> "upload"
      [] argv[2] = "commit"  -> "commit"
      [] argv[2] = "tag"     -> "tag"

\* C1: a version string that begins with "v" makes release() fail with
\* "A version can't begin with a v" before any side effect, whatever
\* only_on, push and upload are: no process, no file change, no commit, tag,
\* push or upload, no banner.
C1_LeadingVRejectedFirst ==
    (Entered /\ StartsWith(options.version, "v")) =>
        /\ pc \in {"release", "Aborted"}
        /\ pc = "Aborted" =>
             /\ stderr = <<Fatal("A version can't begin with a v")>>
             /\ exit_code = <<1>>
        /\ procs = << >>
        /\ stdout = << >>
        /\ Untouched

\* C1 witness: "v2.0" with every option set was rejected, on a tree that
\* every later check would have rejected too
C1_Witness ==
    /\ pc = "Aborted"
    /\ options = [version |-> "v2.0", only_on |-> "master", push |-> TRUE, upload |-> TRUE]
    /\ dirty
    /\ "twine" \notin installed

\* C2: with uncommitted changes in the working tree, release() never gets
\* past the cleanliness check: it ends Aborted, nothing is rewritten, built,
\* committed, tagged, pushed or uploaded, and only inspection commands ran.
C2_DirtyTreeBlocks ==
    (Entered /\ dirty) =>
        /\ pc \in {"release", "check_twine", "check_branch", "check_clean", "Aborted"}
        /\ Untouched
        /\ \A i \in 1..Len(procs) : procs[i].argv \in {WhichTwine, RevParse, DiffIndex}

\* C2 witness: the run was aborted by the cleanliness check itself
C2_Witness ==
    /\ pc = "Aborted"
    /\ dirty
    /\ ~StartsWith(options.version, "v")
    /\ Ran(DiffIndex)
    /\ stderr = <<Fatal("uncommited files")>>
    /\ setupExists
    /\ Target \notin (localTags \cup remoteTags)

\* C3: the target tag existing locally blocks the release, and so does the
\* target tag existing on origin, each by itself: the run ends Aborted
\* without rewriting the version file, building, committing or tagging.
C3_ExistingTagBlocks ==
    /\ (Entered /\ Target \in repo0.localTags) =>
         /\ ~Past("check_local_tag")
         /\ Untouched
    /\ (Entered /\ Target \in repo0.remoteTags) =>
         /\ ~Past("check_remote_tag")
         /\ Untouched

\* C3 witness: the tag exists on origin only, and the remote check aborted a
\* run that had passed the local check
C3_Witness ==
    /\ pc = "Aborted"
    /\ Target \in remoteTags
    /\ Target \notin localTags
    /\ localTags # {}
    /\ Ran(LsRemote)
    /\ stderr = <<Fatal("tag already exists remotely (" \o Target \o ")")>>

\* a step has failed: a child process other than the tolerated local tag
\* listing exited non-zero
ProcessFailed ==
    \E i \in 1..Len(procs) : procs[i].rc # 0 /\ procs[i].argv # ShowRef

\* the check of every completed step held
ChecksHeld ==
    /\ Past("release") => ~StartsWith(options.version, "v")
    /\ (Past("check_twine") /\ options.upload) => "twine" \in installed
    /\ (Past("check_branch") /\ options.only_on # "") => branch = options.only_on
    /\ Past("check_clean") => ~dirty
    /\ Past("check_local_tag") => Target \notin repo0.localTags
    /\ Past("check_remote_tag") => Target \notin repo0.remoteTags
    /\ Past("check_setup") => setupExists
    /\ Past("check_version") => options.version # declared
    /\ Past("update") => VersionLines(repo0.setup_py) # {}

\* the child processes ran in pipeline order, none twice, and a failed one
\* is the last one
ProcsInOrder ==
    /\ \A i, j \in 1..Len(procs) :
         i < j => Pos(StepOfProc(procs[i].argv)) < Pos(StepOfProc(procs[j].argv))
    /\ \A i \in 1..Len(procs) :
         (procs[i].rc # 0 /\ procs[i].argv # ShowRef) => i = Len(procs)
    /\ \A i \in 1..Len(procs) :
         Past(StepOfProc(procs[i].argv)) \/ pc = "Aborted"

\* C4: steps run in order and fail fast: when a step fails the run is
\* Aborted at once, a run that goes on has passed every earlier check with
\* every earlier command exiting 0, nothing runs twice, and nothing at all
\* happens once the run is Aborted.
C4_FailFast ==
    /\ [](ProcessFailed => pc = "Aborted")
    /\ [](ChecksHeld /\ ProcsInOrder)
    /\ [][(pc \in {"Aborted", "Success", "Usage"}) => (vars' = vars)]_vars

\* C4 witness: the build failed after the version file was rewritten, and
\* the run stopped there with push and upload requested
C4_Witness ==
    /\ pc = "Aborted"
    /\ options.push /\ options.upload
    /\ Len(procs) > 0
    /\ procs[Len(procs)] = [argv |-> Build, rc |-> 1]
    /\ setup_py # repo0.setup_py
    /\ commits = << >>

\* the premises of the full-success scenario: bare version, no option, a
\* clean tree, the tag absent locally and on origin, a setup.py with a
\* VERSION line that declares another version
PlainRelease ==
    /\ Entered
    /\ ~StartsWith(options.version, "v")
    /\ options.only_on = "" /\ ~options.push /\ ~options.upload
    /\ ~dirty
    /\ Target \notin (repo0.localTags \cup repo0.remoteTags)
    /\ setupExists
    /\ VersionLines(repo0.setup_py) # {}
    /\ options.version # declared

\* every external tool is there and has succeeded so far, uninterrupted
\* ("git show-ref" exits 1 when the repository has no tag)
ToolsSucceed ==
    /\ {"git", "python", "rm"} \subseteq installed
    /\ \A i \in 1..Len(procs) :
         \/ procs[i].rc = 0
         \/ procs[i] = [argv |-> ShowRef, rc |-> 1] /\ repo0.localTags = {}

\* C5: in the full-success scenario release() does not abort, and when it
\* has ended it is in Success (exit status 0) with every VERSION line
\* rewritten to "VERSION = '{version}'  # maintained by release tool", one
\* new commit "Release v{version}", the new tag "v{version}" made with the
\* message "Release tag for v{version}", no push and no upload attempted,
\* and the push reminder as the last banner.
C5_FullSuccess ==
    (PlainRelease /\ ToolsSucceed) =>
        /\ pc # "Aborted"
        /\ pc = "Success" =>
             /\ exit_code = <<0>>
             /\ \A i \in VersionLines(repo0.setup_py) :
                  Lines(setup_py)[i] = "VERSION = '" \o options.version
                                       \o "'  # maintained by release tool\n"
             /\ commits = Append(repo0.commits, "Release v" \o options.version)
             /\ Ran(<<"git", "commit", "-m", "Release v" \o options.version>>)
             /\ localTags = repo0.localTags \cup {"v" \o options.version}
             /\ Ran(<<"git", "tag", "-a", "-m",
                      "Release tag for v" \o options.version,
                      "v" \o options.version>>)
             /\ ~pushed /\ ~uploaded
             /\ ~Ran(GitPush) /\ ~Ran(TwineUpload) /\ ~Ran(WhichTwine)
             /\ remoteTags = repo0.remoteTags
             /\ stdout[Len(stdout)]
                  = title("Don't forget to push:\n  git push --follow-tags\n")
             /\ stderr = << >>

\* C5 witness: the scenario of spec section 8: no tag anywhere, version
\* "1.0" requested, "0.9" declared, the run ended in Success
C5_Witness ==
    /\ pc = "Success"
    /\ PlainRelease /\ ToolsSucceed
    /\ options.version = "1.0"
    /\ declared = "0.9"
    /\ repo0.localTags = {} /\ repo0.remoteTags = {}
    /\ repo0.setup_py = "VERSION = '0.9'\nsetup(version=VERSION)\n"
    /\ setup_py = "VERSION = '1.0'  # maintained by release tool\nsetup(version=VERSION)\n"

\* the cleanliness check and both tag checks have run and passed, and
\* nothing ran after them
TagChecksJustPassed ==
    /\ Len(procs) >= 3
    /\ procs[Len(procs) - 2] = [argv |-> DiffIndex, rc |-> 0]
    /\ procs[Len(procs) - 1].argv = ShowRef
    /\ procs[Len(procs)] = [argv |-> LsRemote, rc |-> 0]
    /\ ~dirty
    /\ Target \notin (repo0.localTags \cup repo0.remoteTags)

C8_VersionAloneIsUsageError ==
    ( /\ options = [version |-> "1.0", only_on |-> "", push |-> FALSE, upload |-> FALSE]
      /\ ~dirty
      /\ repo0.localTags = {} /\ repo0.remoteTags = {}
      /\ ~setupExists
      /\ installed = Tools
      /\ pc \in {"Success", "Usage", "Aborted"} ) =>
        /\ exit_code = <<2>>
        /\ \E i \in 1..Len(stderr) : Contains(stderr[i], "arguments are required")

-----------------------------------------------------------------------------
(* Publishing, failures and the order of the mutations                     *)

\* argv was run and exited 0
Ok(argv) == \E i \in 1..Len(procs) : procs[i] = [argv |-> argv, rc |-> 0]

\* the run is over, successfully or not
Ended == pc \in {"Success", "Aborted"}

\* the commands that create the release commit and the release tag
CommitCmd == <<"git", "commit", "-m", "Release " \o Target>>
TagCmd == <<"git", "tag", "-a", "-m", "Release tag for " \o Target, Target>>

\* the banner printed instead of a push
Reminder == title("Don't forget to push:\n  git push --follow-tags\n")

Printed(banner) == \E i \in 1..Len(stdout) : stdout[i] = banner

\* C11: publishing is conditional and ordered. A push is invoked iff --push
\* was given and the tag step succeeded; without --push the reminder is
\* printed instead and no push runs. An upload is invoked iff --upload was
\* given and every earlier step succeeded, the push included when one was
\* requested. An upload never precedes the push, the tag or the commit.
C11_PublishConditionalOrdered ==
    /\ Ran(GitPush) => (options.push /\ Ok(TagCmd))
    /\ (Ended /\ options.push /\ Ok(TagCmd)) => Ran(GitPush)
    /\ Printed(Reminder) => (~options.push /\ Ok(TagCmd) /\ ~Ran(GitPush))
    /\ (Ended /\ ~options.push /\ Ok(TagCmd)) => Printed(Reminder)
    /\ Ran(TwineUpload) =>
         /\ options.upload
         /\ Ok(CommitCmd) /\ Ok(TagCmd)
         /\ options.push => Ok(GitPush)
         /\ \A i \in 1..(Len(procs) - 1) : procs[i].rc = 0 \/ procs[i].argv = ShowRef
    /\ (Ended /\ options.upload /\ Ok(TagCmd) /\ (options.push => Ok(GitPush)))
         => Ran(TwineUpload)
    /\ \A i, j \in 1..Len(procs) :
         (procs[i].argv = TwineUpload /\ procs[j].argv \in {GitPush, TagCmd, CommitCmd})
           => j < i

\* C11 witness: a run with --push and --upload that pushed and then uploaded
C11_Witness ==
    /\ pc = "Success"
    /\ options.push /\ options.upload
    /\ pushed /\ uploaded
    /\ Len(procs) >= 2
    /\ procs[Len(procs) - 1].argv = GitPush
    /\ procs[Len(procs)].argv = TwineUpload

\* the run was ended by an interruption (KeyboardInterrupt while waiting
\* for a child)
Interrupted == Len(procs) > 0 /\ procs[Len(procs)].rc = 130

\* C12 as stated: every failure of release() that is not an interruption (a
\* domain error, an external tool exiting non-zero, an external tool that
\* is absent) ends with exactly one "Fatal: {message}" line on stderr and
\* exit status 1.
C12_EveryFailureTranslated ==
    (pc = "Aborted" /\ ~Interrupted) =>
        /\ exit_code = <<1>>
        /\ Len(stderr) = 1
        /\ StartsWith(stderr[1], "\n" \o Collision \o "  Fatal: ")

\* C13: the local tag listing tolerates a non-zero exit of git show-ref: it
\* yields the empty tag set and the run goes on to the remote check. The
\* remote listing is strict: a non-zero exit of git ls-remote aborts the
\* run with the process failure, nothing rewritten, committed or tagged.
C13_LocalTolerantRemoteStrict ==
    /\ \A i \in 1..Len(procs) :
         procs[i] = [argv |-> ShowRef, rc |-> 1] =>
           /\ Len(tag_lists) >= 1
           /\ tag_lists[1].tags = {}
           /\ \/ pc = "check_remote_tag" /\ i = Len(procs)
              \/ i < Len(procs) /\ procs[i + 1].argv = LsRemote
    /\ \A i \in 1..Len(procs) :
         (procs[i].argv = LsRemote /\ procs[i].rc = 1) =>
           /\ i = Len(procs)
           /\ pc = "Aborted"
           /\ exit_code = <<1>>
           /\ stderr = <<Fatal("Command '['git', 'ls-remote', '--tags', 'origin']' "
                               \o "returned non-zero exit status 1.")>>
           /\ Untouched

\* C13 witness: show-ref exited 1, the run went on, and ls-remote's exit 1
\* aborted it
C13_Witness ==
    /\ pc = "Aborted"
    /\ Len(procs) >= 2
    /\ procs[Len(procs) - 1] = [argv |-> ShowRef, rc |-> 1]
    /\ procs[Len(procs)] = [argv |-> LsRemote, rc |-> 1]
    /\ setupExists

\* C14: when no line of setup.py matches the version-declaration pattern,
\* the rewrite reports no change, release() aborts with "failed to update
\* setup.py", the file holds the same lines in the same order as before,
\* and nothing is built, committed or tagged. The message appears in no
\* other case.
C14_NoVersionLineAborts ==
    /\ (Len(rewrites) >= 1 /\ VersionLines(repo0.setup_py) = {}) =>
         /\ ~rewrites[1].changed
         /\ pc = "Aborted"
         /\ exit_code = <<1>>
         /\ stderr = <<Fatal("failed to update setup.py")>>
         /\ setup_py = repo0.setup_py
         /\ Lines(setup_py) = Lines(repo0.setup_py)
         /\ RepoState = repo0
         /\ ~Ran(RmDist) /\ ~Ran(Build) /\ ~Ran(GitAdd)
         /\ ~Ran(CommitCmd) /\ ~Ran(TagCmd)
    /\ (\E i \in 1..Len(stderr) : stderr[i] = Fatal("failed to update setup.py")) =>
         (Len(rewrites) = 1 /\ VersionLines(repo0.setup_py) = {})

\* C14 witness: a setup.py without VERSION line went through the rewrite
C14_Witness ==
    /\ pc = "Aborted"
    /\ Len(rewrites) = 1
    /\ ~rewrites[1].changed
    /\ setup_py = "setup(version='0.9')\n"
    /\ Printed(title("Updating setup.py..."))

\* C15: when the build tool reports the requested version for setup.py,
\* release() aborts with "already the current version" at the version check,
\* before the version file is rewritten and before any build, commit or
\* tag; the message appears in no other case.
C15_SameVersionAborts ==
    /\ (Entered /\ options.version = declared) =>
         /\ ~Past("check_version")
         /\ Untouched
         /\ ~Ran(RmDist) /\ ~Ran(Build) /\ ~Ran(CommitCmd) /\ ~Ran(TagCmd)
    /\ (\E i \in 1..Len(stderr) : stderr[i] = Fatal("already the current version")) =>
         /\ pc = "Aborted"
         /\ options.version = declared
         /\ procs[Len(procs)] = [argv |-> SetupVersion, rc |-> 0]
         /\ Untouched
    /\ ( /\ pc = "Aborted"
         /\ Len(procs) > 0
         /\ procs[Len(procs)] = [argv |-> SetupVersion, rc |-> 0]
         /\ options.version = declared ) =>
         stderr = <<Fatal("already the current version")>>

\* C15 witness: the version check aborted a run whose setup.py has a VERSION
\* line
C15_Witness ==
    /\ pc = "Aborted"
    /\ stderr = <<Fatal("already the current version")>>
    /\ VersionLines(setup_py) # {}
    /\ options.push

\* the checks of release(), numbered as their steps in StepOrder, each with
\* the condition that violates it and the message it reports
NChecks == Pos("check_version")

Violated(k) ==
    CASE k = 1 -> StartsWith(options.version, "v")
      [] k = 2 -> options.upload /\ "twine" \notin installed
      [] k = 3 -> options.only_on # "" /\ branch # options.only_on
      [] k = 4 -> dirty
      [] k = 5 -> Target \in repo0.localTags
      [] k = 6 -> Target \in repo0.remoteTags
      [] k = 7 -> ~setupExists
      [] k = 8 -> options.version = declared

CheckMessage(k) ==
    CASE k = 1 -> Fatal("A version can't begin with a v")
      [] k = 2 -> Fatal("twine is not installed")
      [] k = 3 -> Fatal("not on the " \o options.only_on \o " branch. (" \o branch \o ")")
      [] k = 4 -> Fatal("uncommited files")
      [] k = 5 -> Fatal("tag already exists locally (" \o Target \o ")")
      [] k = 6 -> Fatal("tag already exists remotely (" \o Target \o ")")
      [] k = 7 -> Fatal("missing setup.py file")
      [] k = 8 -> Fatal("already the current version")

ViolatedChecks == {k \in 1..NChecks : Violated(k)}

FirstViolated == CHOOSE k \in ViolatedChecks : \A j \in ViolatedChecks : k <= j

\* every child process exited as the state of the repository dictates: no
\* tool was missing or interrupted, no query failed for a reason of its own
QueriesAnswered ==
    /\ {"git", "python", "which"} \subseteq installed
    /\ \A i \in 1..Len(procs) :
         \/ procs[i].rc = 0
         \/ procs[i].rc = 1 /\ procs[i].argv \in {WhichTwine, DiffIndex, ShowRef}

\* C16: when one or more preconditions are violated, the run never gets
\* past the first violated check in the order v-prefix, twine, branch, clean
\* tree, local tag, remote tag, setup.py, version; no query of a later check
\* is run; no message of another check is reported; and when every query is
\* answered the run ends with the message of the first violated check.
C16_FirstViolatedCheckReported ==
    (Entered /\ ViolatedChecks # {}) =>
        /\ ~Past(StepOrder[FirstViolated])
        /\ Untouched
        /\ \A i \in 1..Len(procs) : Pos(StepOfProc(procs[i].argv)) <= FirstViolated
        /\ \A k \in 1..NChecks :
             (\E i \in 1..Len(stderr) : stderr[i] = CheckMessage(k)) => k = FirstViolated
        /\ (pc = "Aborted" /\ QueriesAnswered) => stderr = <<CheckMessage(FirstViolated)>>

\* C16 witness: the branch is wrong, the tree is dirty and the tag exists
\* on both sides; the branch error is the one reported
C16_Witness ==
    /\ pc = "Aborted"
    /\ Cardinality(ViolatedChecks) >= 4
    /\ FirstViolated = 3
    /\ stderr = <<CheckMessage(3)>>
    /\ procs = <<[argv |-> RevParse, rc |-> 0]>>

\* the last child process is argv and it did not exit 0 (it failed or was
\* interrupted)
FailedAt(argv) ==
    /\ pc = "Aborted"
    /\ Len(procs) > 0
    /\ procs[Len(procs)].argv = argv
    /\ procs[Len(procs)].rc # 0

\* the release commit and the release tag of this invocation exist
CommitMade == commits = Append(repo0.commits, "Release " \o Target)
TagMade == Target \in localTags /\ Target \notin repo0.localTags

\* C17: no rollback. What a step has done stays done in every later state,
\* Aborted included: the rewritten file, the built distribution, the commit,
\* the tag, the push. When the build fails or is interrupted the file keeps
\* the rewritten VERSION line and there is no commit and no tag; when the
\* tag creation fails the commit remains; when the push or the upload fails
\* the commit and the tag remain.
C17_NoRollback ==
    /\ Len(rewrites) >= 1 => setup_py = rewrites[1].text
    /\ Ok(Build) => dist = "built"
    /\ Ok(CommitCmd) => CommitMade
    /\ Ok(TagCmd) => TagMade
    /\ Ok(GitPush) => Target \in remoteTags
    /\ FailedAt(Build) =>
         /\ rewrites[1].changed
         /\ Contains(setup_py, VersionLine(options.version))
         /\ commits = repo0.commits
         /\ localTags = repo0.localTags
    /\ FailedAt(TagCmd) => (CommitMade /\ localTags = repo0.localTags)
    /\ FailedAt(GitPush) => (CommitMade /\ TagMade)
    /\ FailedAt(TwineUpload) => (CommitMade /\ TagMade)

\* C17 witness: the tag creation failed after the commit, and the file on
\* disk is no longer the original one
C17_Witness ==
    /\ FailedAt(TagCmd)
    /\ CommitMade
    /\ setup_py # repo0.setup_py
    /\ exit_code = <<1>>

-----------------------------------------------------------------------------
(* get_git_tags on its own: the extraction applied to ref listings         *)

MaxCalls == 2

\* tag names git can list (a name may hold "/", and "refs/tags/" itself)
TagNames == {"v1.0", "v0.9", "rel/1"}

\* what the two git commands may print: the listings of every set of tags in
\* both formats, and texts at the edges of the pattern
RawListings ==
    {show_ref_output(T) : T \in SUBSET TagNames}
    \cup {ls_remote_output(T) : T \in SUBSET TagNames}
    \cup { Sha \o "\trefs/tags/v1.0\n",
           Sha \o " refs/tags/v1.0",
           Sha \o "\trefs/tags/v1.0^{}\n" \o Sha \o "\trefs/tags/v1.0\n",
           Sha \o " refs/tags/refs/tags/q\n",
           Sha \o " refs/heads/master\n",
           "refs/tags/",
           "refs/tags/^{}\n",
           "refs/tags/\nrefs/tags/a\n",
           "refs/tags/a^refs/tags/b",
           "\n\n" }

InitTags ==
    /\ pc = "tags"
    /\ options = NoOptions
    /\ installed = Tools
    /\ branch = "master"
    /\ dirty = FALSE
    /\ localTags = {}
    /\ remoteTags = {}
    /\ setupExists = TRUE
    /\ setup_py = ""
    /\ declared = ""
    /\ dist = "none"
    /\ staged = FALSE
    /\ commits = << >>
    /\ pushed = FALSE
    /\ uploaded = FALSE
    /\ procs = << >>
    /\ rewrites = << >>
    /\ stdout = << >>
    /\ stderr = << >>
    /\ exit_code = << >>
    /\ repo0 = RepoState
    /\ invocation = 1
    /\ tag_lists = << >>

\* one call of get_git_tags(), lines 26-33, on the listing raw
call_get_git_tags ==
    /\ pc = "tags"
    /\ Len(tag_lists) < MaxCalls
    /\ \E raw \in RawListings :
         tag_lists' = Append(tag_lists, [out |-> raw, tags |-> get_git_tags(raw)])
    /\ UNCHANGED <<pc, options, env, repo, procs, rewrites, outputs, repo0, invocation>>

NextTags == call_get_git_tags

SpecTags == InitTags /\ [][NextTags]_vars

\* "refs/tags/" stands in s at index i
PrefixAt(s, i) ==
    /\ i + Len("refs/tags/") - 1 <= Len(s)
    /\ SubSeq(s, i, i + Len("refs/tags/") - 1) = "refs/tags/"

\* the first index from b on that holds "^" or "\n", or Len(s) + 1
NameEnd(s, b) ==
    CHOOSE e \in b..(Len(s) + 1) :
        /\ e = Len(s) + 1 \/ Char(s, e) \in {"^", "\n"}
        /\ \A k \in b..(e - 1) : Char(s, k) \notin {"^", "\n"}

\* index i lies within the name that follows an earlier prefix (such a
\* "refs/tags/" is part of that name, not a prefix of its own)
InsideName(s, i) ==
    \E j \in 1..(i - 1) : PrefixAt(s, j) /\ i < NameEnd(s, j + Len("refs/tags/"))

\* the non-empty substrings that follow each prefix, up to "^" or "\n"
ExpectedTags(s) ==
    { SubSeq(s, i + Len("refs/tags/"), NameEnd(s, i + Len("refs/tags/")) - 1) :
        i \in { k \in 1..Len(s) :
                  /\ PrefixAt(s, k)
                  /\ ~InsideName(s, k)
                  /\ NameEnd(s, k + Len("refs/tags/")) > k + Len("refs/tags/") } }

\* C18: for every listing, get_git_tags() yields exactly the non-empty
\* substrings that follow each "refs/tags/" prefix up to the next newline
\* or "^"; no tag is empty or holds "^" or a newline; the listing of a set of
\* tags in either git format, peeled lines included, yields that set.
C18_TagExtraction ==
    \A n \in 1..Len(tag_lists) :
        LET e == tag_lists[n]
        IN  /\ e.tags = ExpectedTags(e.out)
            /\ \A t \in e.tags : t # "" /\ ~Contains(t, "^") /\ ~Contains(t, "\n")
            /\ \A T \in SUBSET TagNames :
                 e.out \in {show_ref_output(T), ls_remote_output(T)} => e.tags = T

\* C18 witness: a remote listing with plain and peeled lines was parsed
C18_Witness ==
    \E n \in 1..Len(tag_lists) :
        /\ tag_lists[n].out = ls_remote_output({"v1.0", "rel/1"})
        /\ Contains(tag_lists[n].out, "refs/tags/v1.0^{}")
        /\ tag_lists[n].tags = {"v1.0", "rel/1"}

\* how many child processes ran argv
Count(argv) == Cardinality({i \in 1..Len(procs) : procs[i].argv = argv})

\* C19: within one invocation the mutations are nested in pipeline order. A
\* push or an upload was invoked only if the tag v{version} was created; the
\* tag was created only if the release commit was; the commit was created
\* only if the build succeeded; the build ran only if the rewrite of the
\* version file reported a change. At most one commit and one tag are made.
C19_MutationsNested ==
    /\ (Ran(GitPush) \/ Ran(TwineUpload)) => (Ok(TagCmd) /\ TagMade)
    /\ (Ran(TagCmd) \/ localTags # repo0.localTags) => (Ok(CommitCmd) /\ CommitMade)
    /\ (Ran(CommitCmd) \/ commits # repo0.commits) => (Ok(Build) /\ dist = "built")
    /\ Ran(Build) => (Len(rewrites) = 1 /\ rewrites[1].changed)
    /\ Count(CommitCmd) <= 1
    /\ Count(TagCmd) <= 1
    /\ commits = repo0.commits \/ CommitMade
    /\ localTags = repo0.localTags \/ localTags = repo0.localTags \cup {Target}
    /\ Len(rewrites) <= 1

\* C19 witness: a run that pushed and uploaded, in a repository that held
\* other tags before
C19_Witness ==
    /\ Ok(GitPush) /\ Ok(TwineUpload)
    /\ TagMade /\ CommitMade
    /\ repo0.localTags # {}
    /\ Count(CommitCmd) = 1 /\ Count(TagCmd) = 1

-----------------------------------------------------------------------------
(* The command run again after a failed release                            *)

MaxInvocations == 2

\* the same command line is run again on the working tree an aborted
\* invocation left behind, once that invocation had rewritten setup.py.
\* setup.py is tracked: "git diff-index HEAD" reports it as long as its
\* rewritten text is not committed. The build tool reports the version of
\* the VERSION line, which now is the requested one. The new process starts
\* with empty output and a fresh record of its own doings.
rerun ==
    /\ pc = "Aborted"
    /\ invocation < MaxInvocations
    /\ invocation > 1 \/ (Len(rewrites) = 1 /\ rewrites[1].changed)
    /\ pc' = "release"
    /\ invocation' = invocation + 1
    /\ dirty' = IF invocation = 1
                THEN commits = repo0.commits /\ setup_py # repo0.setup_py
                ELSE dirty
    /\ declared' = IF Contains(setup_py, VersionLine(options.version))
                   THEN options.version
                   ELSE declared
    /\ repo0' = RepoState
    /\ procs' = << >>
    /\ rewrites' = << >>
    /\ tag_lists' = << >>
    /\ stdout' = << >>
    /\ stderr' = << >>
    /\ exit_code' = << >>
    /\ UNCHANGED <<options, installed, branch, setupExists, repo>>

NextRerun == Next \/ rerun

SpecRerun == Init /\ [][NextRerun]_vars

\* C20: an invocation for the same version that follows one which rewrote
\* the version file and then aborted never gets past the version check,
\* never succeeds, changes nothing (no commit, no tag, no push, no upload,
\* no rewrite), and when its queries are answered it aborts with one of
\* "uncommited files", "tag already exists locally", "already the current
\* version".
C20_NoRetryAfterAbort ==
    invocation > 1 =>
        /\ ~Past("check_version")
        /\ pc # "Success"
        /\ Untouched
        /\ ~Ran(Build) /\ ~Ran(CommitCmd) /\ ~Ran(TagCmd)
        /\ ~Ran(GitPush) /\ ~Ran(TwineUpload)
        /\ dirty \/ Target \in localTags \/ options.version = declared
        /\ (pc = "Aborted" /\ QueriesAnswered) =>
             stderr \in { <<CheckMessage(4)>>, <<CheckMessage(5)>>, <<CheckMessage(8)>> }

\* C20 witness: the first invocation made the commit and failed to tag; the
\* second one stops at the version check
C20_Witness ==
    /\ invocation = 2
    /\ pc = "Aborted"
    /\ ~dirty
    /\ Target \notin localTags
    /\ Len(commits) = Len(repo0.commits)
    /\ Len(commits) > 0
    /\ stderr = <<CheckMessage(8)>>

=============================================================================
